---- MODULE Spec2Model ----
(***************************************************************************)
(* SEAL signature validation (src/src/seal.ts): the static SEAL class with *)
(* its process-wide key cache, parsed record and validation context, and   *)
(* the validateSig pipeline with its suspension points.                    *)
(*                                                                         *)
(* Text is modelled as a sequence of one-character strings so that split,  *)
(* substring, replace and parseInt are computed as the code computes them. *)
(* Attributes that the code only compares or uses as keys (seal, d, ka,    *)
(* da, p) are plain strings; "" stands for an absent or empty attribute    *)
(* (both are falsy in every test the code makes).                          *)
(***************************************************************************)
EXTENDS Integers, Sequences, FiniteSets, TLC

\* ---------------------------------------------------------------- bounds
NPasses == 2
MaxSize == 4
MaxOffset == 2

MaxFraction == 2

MaxTokens == 2

\* ------------------------------------------------------------ text helpers
Digits == <<"0", "1", "2", "3", "4", "5", "6", "7", "8", "9">>

IsDigit(c) == \E i \in 1..10 : Digits[i] = c

DigitVal(c) == (CHOOSE i \in 1..10 : Digits[i] = c) - 1

\* String.prototype.split with a one-character separator.
RECURSIVE SplitAcc(_, _, _)
SplitAcc(s, sep, cur) ==
  IF s = <<>> THEN <<cur>>
  ELSE IF Head(s) = sep THEN <<cur>> \o SplitAcc(Tail(s), sep, <<>>)
  ELSE SplitAcc(Tail(s), sep, Append(cur, Head(s)))

Split(s, sep) == SplitAcc(s, sep, <<>>)

\* parseInt on text that starts with a decimal digit: the leading digits.
RECURSIVE ParseIntAcc(_, _)
ParseIntAcc(s, acc) ==
  IF s = <<>> \/ ~IsDigit(Head(s)) THEN acc
  ELSE ParseIntAcc(Tail(s), acc * 10 + DigitVal(Head(s)))

ParseInt(s) == ParseIntAcc(s, 0)

\* parseInt yields NaN when the text does not start with a digit.
IsNaNText(s) == s = <<>> \/ ~IsDigit(Head(s))

\* String.prototype.substring(from, to) with 0-based, clamped indices.
Clamp(i, n) == IF i < 0 THEN 0 ELSE IF i > n THEN n ELSE i

Substring(s, from, to) ==
  LET a == Clamp(from, Len(s))
      b == Clamp(to, Len(s))
      lo == IF a < b THEN a ELSE b
      hi == IF a < b THEN b ELSE a
  IN SubSeq(s, lo + 1, hi)

\* s starts with pat at 1-based position i
MatchAt(s, pat, i) ==
  /\ i + Len(pat) - 1 <= Len(s)
  /\ \A k \in 1..Len(pat) : s[i + k - 1] = pat[k]

Includes(s, pat) == \E i \in 1..(Len(s) + 1) : MatchAt(s, pat, i)

\* String.prototype.replace(pat, '') with a string pattern: first match only.
ReplaceFirst(s, pat) ==
  IF Includes(s, pat)
  THEN LET i == CHOOSE j \in 1..(Len(s) + 1) :
                  MatchAt(s, pat, j) /\ \A k \in 1..(j - 1) : ~MatchAt(s, pat, k)
       IN SubSeq(s, 1, i - 1) \o SubSeq(s, i + Len(pat), Len(s))
  ELSE s

\* ------------------------------------------------------- range resolution
\* sub[1] and add[1] of lines 500 and 507: truthy when present and not empty.
HasOffset(parts) == Len(parts) >= 2 /\ parts[2] # <<>>

OffsetOf(parts) == IF HasOffset(parts) THEN ParseInt(parts[2]) ELSE 0

EndpointFrom(tok, sub, add) ==
  [anchor |-> IF HasOffset(add) THEN add[1] ELSE IF HasOffset(sub) THEN sub[1] ELSE tok,
   sub |-> OffsetOf(sub),
   add |-> OffsetOf(add)]

\* One endpoint of a range token, lines 497-512 (start) and 550-565 (stop):
\* the anchor text and the two numbers that are added to the anchor value.
EndpointParts(tok) == EndpointFrom(tok, Split(tok, "-"), Split(tok, "+"))

ValidAnchors == {<<"F">>, <<"f">>, <<"S">>, <<"s">>, <<"P">>, <<"p">>}

\* A resolver that takes anchor f for the offset of the last byte.
AnchorValue_LastByte(anchor, size, signature_end, slen) ==
  IF anchor = <<"F">> THEN 0
  ELSE IF anchor = <<"f">> THEN size - 1
  ELSE IF anchor = <<"S">> THEN signature_end - slen
  ELSE IF anchor = <<"s">> THEN signature_end
  ELSE 0

\* The switch on the anchor, lines 514-547 and 567-592.
AnchorValue(anchor, size, signature_end, slen) ==
  IF anchor = <<"F">> THEN 0
  ELSE IF anchor = <<"f">> THEN size
  ELSE IF anchor = <<"S">> THEN signature_end - slen
  ELSE IF anchor = <<"s">> THEN signature_end
  ELSE 0

StartLabel(anchor) ==
  IF anchor = <<"F">> THEN "Start of file"
  ELSE IF anchor = <<"f">> THEN "End of file"
  ELSE IF anchor = <<"S">> THEN "Start of signature"
  ELSE IF anchor = <<"s">> THEN "End of signature"
  ELSE "undefined"

StopLabel(anchor, prev) ==
  IF anchor = <<"F">> THEN "Start of file"
  ELSE IF anchor = <<"f">> THEN "End of file"
  ELSE IF anchor = <<"S">> THEN "start of signature"
  ELSE IF anchor = <<"s">> THEN "end of signature"
  ELSE prev

\* Lines 548 and 594: start = start + add + sub, stop = stop + add + sub.
Coordinate(ep, size, signature_end, slen) ==
  AnchorValue(ep.anchor, size, signature_end, slen) + ep.add + ep.sub

FirstLabel(acc, anchor) ==
  IF acc.show_start = "undefined" THEN StartLabel(anchor) ELSE acc.show_start

RangePushed_Prepend(acc, range, showStart, showStop) ==
  [acc EXCEPT !.ranges = <<range>> \o acc.ranges,
              !.show_start = showStart,
              !.show_stop = showStop,
              !.summary = <<showStart, showStop>>]

RangePushed(acc, range, showStart, showStop) ==
  [acc EXCEPT !.ranges = Append(acc.ranges, range),
              !.show_start = showStart,
              !.show_stop = showStop,
              !.summary = <<showStart, showStop>>]

RangeRejected(acc, error) ==
  [acc EXCEPT !.rejected = TRUE,
              !.error = IF acc.rejected THEN acc.error ELSE error]

\* The callback on a token whose start and stop texts have been taken apart:
\* hasStop is false when the token has no '~'.
RangeStepOn(acc, sp, hasStop, ep, size, signature_end, slen) ==
  IF sp.anchor \notin ValidAnchors THEN RangeRejected(acc, "ranges start error")
  ELSE IF ~hasStop THEN
    [acc EXCEPT !.threw = TRUE, !.show_start = FirstLabel(acc, sp.anchor)]
  ELSE IF ep.anchor \notin ValidAnchors THEN
    RangeRejected([acc EXCEPT !.show_start = FirstLabel(acc, sp.anchor)],
                  "ranges stop error")
  ELSE
    RangePushed(acc, <<Coordinate(sp, size, signature_end, slen),
                       Coordinate(ep, size, signature_end, slen)>>,
                FirstLabel(acc, sp.anchor), StopLabel(ep.anchor, acc.show_stop))

RangeStepParts(acc, parts, size, signature_end, slen) ==
  RangeStepOn(acc, EndpointParts(parts[1]), Len(parts) >= 2,
              EndpointParts(IF Len(parts) >= 2 THEN parts[2] ELSE <<>>),
              size, signature_end, slen)

\* The forEach callback of digest(), lines 492-597, applied to one token.
\* acc.rejected: reject() was called (lines 546, 591); acc.threw: the callback
\* threw (stop is undefined when the token has no '~', line 550), which ends
\* the forEach and the executor.
RangeStep(acc, token, size, signature_end, slen) ==
  RangeStepParts(acc, Split(token, "~"), size, signature_end, slen)

RECURSIVE RangeFold(_, _, _, _, _)
RangeFold(acc, tokens, size, signature_end, slen) ==
  IF tokens = <<>> \/ acc.threw THEN acc
  ELSE RangeFold(RangeStep(acc, Head(tokens), size, signature_end, slen),
                 Tail(tokens), size, signature_end, slen)

\* Lines 490-597: the range list digest() builds from the expression b.
ResolveRanges(b, size, signature_end, slen) ==
  RangeFold([ranges |-> <<>>, rejected |-> FALSE, threw |-> FALSE, error |-> "",
             show_start |-> "undefined", show_stop |-> "undefined",
             summary |-> <<>>],
            Split(b, ","), size, signature_end, slen)

\* ------------------------------------------------------ signature decoding
HexChars == <<"0", "1", "2", "3", "4", "5", "6", "7", "8", "9",
              "a", "b", "c", "d", "e", "f">>

HexUpper == <<"0", "1", "2", "3", "4", "5", "6", "7", "8", "9",
              "A", "B", "C", "D", "E", "F">>

IsHex(c) == \E i \in 1..16 : HexChars[i] = c \/ HexUpper[i] = c

HexVal(c) == (CHOOSE i \in 1..16 : HexChars[i] = c \/ HexUpper[i] = c) - 1

RECURSIVE HexPairs(_)
HexPairs(s) ==
  IF s = <<>> THEN <<>>
  ELSE <<HexVal(s[1]) * 16 + HexVal(s[2])>> \o HexPairs(SubSeq(s, 3, Len(s)))

\* utils.hexToUint8Array: two-character hex-pair decoding; it fails on an odd
\* length or on a character that is not a hexadecimal digit.
hexToUint8Array(s) ==
  IF Len(s) % 2 = 0 /\ \A i \in 1..Len(s) : IsHex(s[i])
  THEN [ok |-> TRUE, bytes |-> HexPairs(s)]
  ELSE [ok |-> FALSE, bytes |-> <<>>]

B64Chars == <<"A", "B", "C", "D", "E", "F", "G", "H", "I", "J", "K", "L", "M",
              "N", "O", "P", "Q", "R", "S", "T", "U", "V", "W", "X", "Y", "Z",
              "a", "b", "c", "d", "e", "f", "g", "h", "i", "j", "k", "l", "m",
              "n", "o", "p", "q", "r", "s", "t", "u", "v", "w", "x", "y", "z",
              "0", "1", "2", "3", "4", "5", "6", "7", "8", "9", "+", "/">>

IsB64(c) == \E i \in 1..64 : B64Chars[i] = c

B64Val(c) == (CHOOSE i \in 1..64 : B64Chars[i] = c) - 1

RECURSIVE StripPad(_)
StripPad(s) ==
  IF s # <<>> /\ s[Len(s)] = "=" THEN StripPad(SubSeq(s, 1, Len(s) - 1)) ELSE s

RECURSIVE B64Groups(_)
B64Groups(s) ==
  IF Len(s) < 2 THEN <<>>
  ELSE LET v1 == B64Val(s[1])
           v2 == B64Val(s[2])
           b1 == v1 * 4 + (v2 \div 16)
       IN IF Len(s) = 2 THEN <<b1>>
          ELSE LET v3 == B64Val(s[3])
                   b2 == (v2 % 16) * 16 + (v3 \div 4)
               IN IF Len(s) = 3 THEN <<b1, b2>>
                  ELSE <<b1, b2, (v3 % 4) * 64 + B64Val(s[4])>>
                         \o B64Groups(SubSeq(s, 5, Len(s)))

\* utils.base64ToUint8Array: standard base64 decoding that tolerates missing
\* trailing padding; it fails on a character outside the alphabet or on a
\* dangling single character.
base64ToUint8Array(s) ==
  LET t == StripPad(s)
  IN IF (\A i \in 1..Len(t) : IsB64(t[i])) /\ Len(t) % 4 # 1
     THEN [ok |-> TRUE, bytes |-> B64Groups(t)]
     ELSE [ok |-> FALSE, bytes |-> <<>>]

Encodings == {<<"b", "a", "s", "e", "6", "4">>, <<"h", "e", "x">>,
              <<"H", "E", "X">>, <<"b", "i", "n">>}

\* Lines 637-640: an encoding token.
EncodingStep(v, format) ==
  IF format \in Encodings
  THEN [v EXCEPT !.signature_encoding = format,
                 !.signature = IF v.signature # <<>>
                               THEN ReplaceFirst(v.signature, format \o <<":">>)
                               ELSE v.signature]
  ELSE v

DateSplit_NoSeparator(v, last, s) ==
  IF IsNaNText(last)
  THEN [v EXCEPT !.signature = Substring(s, 14, Len(s)),
                 !.signature_date = Substring(s, 0, 14)]
  ELSE [v EXCEPT !.signature = Substring(s, 15 + ParseInt(last), Len(s)),
                 !.signature_date = Substring(s, 0, 15 + ParseInt(last))]

\* Lines 643-650: the split at the accuracy the last character gives.
DateSplit(v, last, s) ==
  IF IsNaNText(last)
  THEN [v EXCEPT !.signature = Substring(s, 15, Len(s)),
                 !.signature_date = Substring(s, 0, 14)]
  ELSE [v EXCEPT !.signature = Substring(s, 16 + ParseInt(last), Len(s)),
                 !.signature_date = Substring(s, 0, 15 + ParseInt(last))]

\* Lines 642-651: a token that contains "date".
DateStep(v, format, s) ==
  IF Includes(format, <<"d", "a", "t", "e">>)
  THEN DateSplit(v, IF format = <<>> THEN <<>> ELSE <<format[Len(format)]>>, s)
  ELSE v

\* The forEach callback of doubleDigest(), lines 636-652, for one format token;
\* v is the validation context, s the stored signature text record.s.
FormatStep(v, format, s) == DateStep(EncodingStep(v, format), format, s)

RECURSIVE FormatFold(_, _, _)
FormatFold(v, formats, s) ==
  IF formats = <<>> THEN v
  ELSE FormatFold(FormatStep(v, Head(formats), s), Tail(formats), s)

Base64 == <<"b", "a", "s", "e", "6", "4">>

AfterFormats_NoDefault(r, v, formats) ==
  FormatFold([v EXCEPT !.signature = r.s], formats, r.s)

\* Lines 627-656: the context after the format tokens have been processed.
AfterFormats(r, v, formats) ==
  IF Len(formats) > 0 THEN FormatFold([v EXCEPT !.signature = r.s], formats, r.s)
  ELSE [v EXCEPT !.signature = r.s, !.signature_encoding = Base64]

\* Lines 657-663: the bytes the signature text decodes to.
Decoded(v) ==
  IF v.signature_encoding \in {<<"h", "e", "x">>, <<"H", "E", "X">>}
  THEN hexToUint8Array(v.signature)
  ELSE IF v.signature_encoding = Base64 THEN base64ToUint8Array(v.signature)
  ELSE [ok |-> TRUE, bytes |-> v.signature_bytes]

Prepend_IdFirst(r, v) ==
  (IF r.id # <<>> THEN r.id \o <<":">> ELSE <<>>)
    \o (IF v.signature_date # <<>> THEN v.signature_date \o <<":">> ELSE <<>>)

\* Lines 676-685: the text that goes in front of the digest.
Prepend(r, v) ==
  (IF v.signature_date # <<>> THEN v.signature_date \o <<":">> ELSE <<>>)
    \o (IF r.id # <<>> THEN r.id \o <<":">> ELSE <<>>)

\* Lines 687-700: digest2 is built when digest1 is there; error is the name of
\* the first reject() so far, "" when there was none.
SignedValue(r, v, error) ==
  IF v.digest1 # <<>>
  THEN [v |-> [v EXCEPT !.digest2 = Prepend(r, v) \o v.digest1], error |-> error]
  ELSE [v |-> v, error |-> IF error = "" THEN "DIGEST_MISSING" ELSE error]

\* Lines 657-674 and onwards, given the context after the format tokens and
\* the outcome of the decoding.
AfterDecoding(r, v, v2, dec) ==
  IF r.s = <<>> THEN SignedValue(r, v, "SIGNATURE_MISSING")
  ELSE IF ~dec.ok THEN [v |-> v2, error |-> "decode error"]
  ELSE SignedValue(r, [v2 EXCEPT !.signature_bytes = dec.bytes], "")

DecodeAndSign(r, v, v2) == AfterDecoding(r, v, v2, Decoded(v2))

\* doubleDigest(), lines 622-702, run on record r and validation context v.
\* The result is the context after the call and how its promise settled:
\* "" for resolve(), otherwise the name of the first reject().
doubleDigest(r, v) ==
  DecodeAndSign(r, v, AfterFormats(r, v, IF r.sf # <<>> THEN Split(r.sf, ":") ELSE <<>>))

\* --------------------------------------------------------- record parsing
DigestAlgorithm_NoDefault(da) ==
  IF da = "sha256" THEN "SHA-256"
  ELSE IF da = "sha384" THEN "SHA-384"
  ELSE IF da = "sha512" THEN "SHA-512"
  ELSE IF da = "sha1" THEN "SHA-1"
  ELSE da

\* The switch of parse(), lines 239-259.
DigestAlgorithm(da) ==
  LET d == IF da = "" THEN "sha256" ELSE da
  IN IF d = "sha256" THEN "SHA-256"
     ELSE IF d = "sha384" THEN "SHA-384"
     ELSE IF d = "sha512" THEN "SHA-512"
     ELSE IF d = "sha1" THEN "SHA-1"
     ELSE "SHA-256"

\* Lines 261-269: the mandatory attributes.
RecordComplete(a) == a.seal # "" /\ a.d # "" /\ a.ka # "" /\ a.s # <<>>

\* parse(), lines 200-273, on the attributes the scan of lines 226-237 extracts.
parse(a) == [a EXCEPT !.da = DigestAlgorithm(a.da)]

\* Lines 210-212: the end offset moves back by 5 when the segment has &quot;.
ParsedSignatureEnd(asset) ==
  IF asset.quot THEN asset.signature_end - 5 ELSE asset.signature_end

\* ------------------------------------------------------------- the inputs
Passes == 1..NPasses

Domains == {"a.org", "b.org"}

NoAttrs == [seal |-> "", d |-> "", ka |-> "", s |-> <<>>, sf |-> <<>>,
            da |-> "", b |-> <<>>, id |-> <<>>]

\* b="F~S,s~f"
RangeAroundSignature == <<"F", "~", "S", ",", "s", "~", "f">>

SignedAttrs == [seal |-> "1", d |-> "a.org", ka |-> "rsa", s |-> <<"d", "e">>,
                sf |-> <<"h", "e", "x">>, da |-> "sha256",
                b |-> RangeAroundSignature, id |-> <<>>]

MkAsset(name, data, seg, quot, sigend, attrs) ==
  [name |-> name, data |-> data, has_segments |-> seg, quot |-> quot,
   signature_end |-> sigend, attrs |-> attrs]

\* An asset whose record is signed by key K1 of a.org over bytes 0-1 and 4-5.
SignedAsset == MkAsset("signed", <<"x", "y", "d", "e", "z", "w">>, TRUE, FALSE, 4, SignedAttrs)

\* The same asset with one byte inside the first digested range changed.
FlippedAsset == [SignedAsset EXCEPT !.name = "flipped", !.data[1] = "q"]

Assets ==
  { SignedAsset,
    FlippedAsset,
    MkAsset("plain", <<"x", "y">>, FALSE, FALSE, 0, NoAttrs),
    [SignedAsset EXCEPT !.name = "no-s", !.attrs.s = <<>>],
    [SignedAsset EXCEPT !.name = "no-ka", !.attrs.ka = ""],
    [SignedAsset EXCEPT !.name = "no-b", !.attrs.b = <<>>],
    [SignedAsset EXCEPT !.name = "bad-anchor",
                        !.attrs.b = <<"X", "~", "S", ",", "s", "~", "f">>],
    [SignedAsset EXCEPT !.name = "bad-hex", !.attrs.s = <<"z", "z">>],
    [SignedAsset EXCEPT !.name = "before-end", !.attrs.b = <<"F", "~", "f", "-", "1">>],
    MkAsset("other", <<"m", "n", "Q", "U", "J", "D", "o">>, TRUE, TRUE, 11,
            [seal |-> "1", d |-> "b.org", ka |-> "ec", s |-> <<"Q", "U", "J", "D">>,
             sf |-> <<>>, da |-> "sha512", b |-> <<"F", "~", "S">>, id |-> <<"u">>]) }

DnsRecord(ka, seal, key) == [ka |-> ka, seal |-> seal, p |-> key]

\* What DoH.getDNSTXTRecords can deliver: a failure, nothing, or a list.
DnsAnswers ==
  { [kind |-> "fail", list |-> <<>>],
    [kind |-> "nothing", list |-> <<>>],
    [kind |-> "list", list |-> <<>>],
    [kind |-> "list", list |-> <<DnsRecord("rsa", "1", "K2"), DnsRecord("rsa", "1", "K1")>>],
    [kind |-> "list", list |-> <<DnsRecord("ec", "1", "K3")>>],
    [kind |-> "list", list |-> <<DnsRecord("dsa", "1", "K4")>>],
    [kind |-> "list", list |-> <<DnsRecord("rsa", "", "K1")>>] }

\* ------------------------------------------------------------ capabilities
\* crypto.subtle.digest as an ideal hash: the algorithm and the input bytes.
Digest(da, bytes) == <<da>> \o bytes

\* Uint8Array.prototype.slice(start, end): negative indices count from the
\* end and both are clamped to the buffer.
Slice(data, start, end) ==
  LET n == Len(data)
      a == IF start < 0 THEN Clamp(n + start, n) ELSE Clamp(start, n)
      b == IF end < 0 THEN Clamp(n + end, n) ELSE Clamp(end, n)
  IN IF a < b THEN SubSeq(data, a + 1, b) ELSE <<>>

RECURSIVE assembleBuffer(_, _)
assembleBuffer(data, ranges) ==
  IF ranges = <<>> THEN <<>>
  ELSE Slice(data, Head(ranges)[1], Head(ranges)[2]) \o assembleBuffer(data, Tail(ranges))

InBounds(data, ranges) ==
  \A i \in 1..Len(ranges) :
     0 <= ranges[i][1] /\ ranges[i][1] <= ranges[i][2] /\ ranges[i][2] <= Len(data)

\* Crypto.verifySignature as an ideal signature scheme: the one signature
\* that key K1 produced is over the SHA-256 digest of bytes x y z w.
verifySignature(signed_value, signature_bytes, key) ==
  /\ key = "K1"
  /\ signature_bytes = <<222>>
  /\ signed_value = <<"SHA-256", "x", "y", "z", "w">>

\* utils.createDate: the Date built from the raw timestamp text.
createDate(text) == <<"D", "a", "t", "e", "(">> \o text \o <<")">>

\* ------------------------------------------------------------------- state
VARIABLES
  public_keys,      \* SEAL.public_keys: domain -> keys per algorithm
  record,           \* SEAL.record
  validation,       \* SEAL.validation
  recordOwner,      \* the pass that last assigned SEAL.record (0: none)
  validationOwner,  \* the pass that last assigned SEAL.validation (0: none)
  pc,               \* where each validateSig call is
  asset,            \* each call's asset argument
  domain,           \* each call's local variable domain
  TXTRecords,       \* each call's local variable TXTRecords
  result_summary,   \* each call's local result_summary
  promise,          \* the promise each call returned
  cryptoKey,        \* each call's local cryptoKey and the key text it came from
  digestJob,        \* each call's pending crypto.subtle.digest of digest()
  verifyArgs,       \* the arguments of each call's pending verifySignature
  ddPromise,        \* how each call's doubleDigest() promise settled
  log,              \* what each call has invoked so far
  foreign,          \* the call has read a record or context another call wrote
  rq                \* a function run on its own: its inputs and its result

vars == <<public_keys, record, validation, recordOwner, validationOwner, pc, asset,
          domain, TXTRecords, result_summary, promise, cryptoKey, digestJob,
          verifyArgs, ddPromise, log,
          foreign, rq>>

NoKeys == [present |-> FALSE, rsa |-> "", ec |-> ""]

NoRecord == [NoAttrs EXCEPT !.da = ""]

\* Lines 293-299.
FreshValidation(verbose) ==
  [digest_ranges |-> <<>>, digest_summary |-> <<>>, digest1 |-> <<>>,
   digest2 |-> <<>>, signature_date |-> <<>>, signature |-> <<>>,
   signature_bytes |-> <<>>, signature_encoding |-> <<>>, verbose |-> verbose,
   doh_api |-> "https://mozilla.cloudflare-dns.com/dns-query"]

NoResult == [message |-> "", valid |-> "unset", filename |-> "", verbose |-> FALSE,
             domain |-> "", signed_on |-> <<>>, digest |-> <<>>,
             double_digest |-> <<>>, key_algorithm |-> <<>>,
             digest_algorithm |-> "", key_base64 |-> "", signed_bytes |-> <<>>,
             spans |-> <<>>, user |-> <<>>]

Pending == [state |-> "pending", error |-> "", message |-> "", value |-> NoResult]

\* resolve() and reject() of the promise: the first settlement stands.
Resolve(pr, value) ==
  IF pr.state = "pending"
  THEN [state |-> "resolved", error |-> "", message |-> "", value |-> value]
  ELSE pr

RejectWith_LastWins(pr, name, message) ==
  [state |-> "rejected", error |-> name, message |-> message, value |-> NoResult]

\* reject(new ValidationError({name, message})).
RejectWith(pr, name, message) ==
  IF pr.state = "pending"
  THEN [state |-> "rejected", error |-> name, message |-> message, value |-> NoResult]
  ELSE pr

Reject(pr, name) == RejectWith(pr, name, "")

NoJob == [active |-> FALSE, da |-> "", bytes |-> <<>>, state |-> "none"]

NoCryptoKey == [key |-> "", imported |-> FALSE]

NoVerify == [digest2 |-> <<>>, signature_bytes |-> <<>>, key |-> ""]

NoRq == [start |-> [anchor |-> "F", op |-> "", off |-> 0],
         stop |-> [anchor |-> "F", op |-> "", off |-> 0],
         size |-> 0, signature_end |-> 0, slen |-> 0,
         done |-> FALSE, ranges |-> <<>>, rejected |-> FALSE]

PassInit ==
  /\ public_keys = [d \in Domains |-> NoKeys]
  /\ record = NoRecord
  /\ validation = FreshValidation(FALSE)
  /\ recordOwner = 0
  /\ validationOwner = 0
  /\ pc = [p \in Passes |-> "idle"]
  /\ asset = [p \in Passes |-> MkAsset("", <<>>, FALSE, FALSE, 0, NoAttrs)]
  /\ domain = [p \in Passes |-> ""]
  /\ TXTRecords = [p \in Passes |-> <<>>]
  /\ result_summary = [p \in Passes |-> NoResult]
  /\ promise = [p \in Passes |-> Pending]
  /\ cryptoKey = [p \in Passes |-> NoCryptoKey]
  /\ ddPromise = [p \in Passes |-> ""]
  /\ digestJob = [p \in Passes |-> NoJob]
  /\ verifyArgs = [p \in Passes |-> NoVerify]
  /\ log = [p \in Passes |-> <<>>]
  /\ foreign = [p \in Passes |-> FALSE]

Init == PassInit /\ rq = NoRq

\* --------------------------------------------------------------- the steps
\* Lines 485 and 595-596: the context once the ranges are resolved.
WithRanges(v, rr) ==
  [v EXCEPT !.digest_ranges = rr.ranges,
            !.digest_summary = IF rr.ranges # <<>> THEN rr.summary ELSE v.digest_summary]

RangeEvents(rr) == <<"digest">> \o (IF rr.rejected THEN <<"fail:range">> ELSE <<>>)

\* digest() once the range expression is resolved to rr.
digestOn(r, v, a, throws, rr) ==
  IF r.b = <<>> THEN
    [v |-> [v EXCEPT !.digest_ranges = <<>>],
     job |-> [NoJob EXCEPT !.state = "never"], events |-> <<"digest">>]
  ELSE IF rr.threw \/ throws THEN
    [v |-> WithRanges(v, rr),
     job |-> [NoJob EXCEPT !.state = IF rr.rejected THEN "rejected" ELSE "never"],
     events |-> RangeEvents(rr)]
  ELSE
    [v |-> WithRanges(v, rr),
     job |-> [active |-> TRUE, da |-> r.da,
              bytes |-> assembleBuffer(a.data, rr.ranges),
              state |-> IF rr.rejected THEN "rejected" ELSE "pending"],
     events |-> RangeEvents(rr) \o <<"subtle.digest">>]

\* A digest() that hashes the whole asset instead of the resolved ranges.
digest_WholeAsset(r, v, a, throws) ==
  LET rr == ResolveRanges(r.b, Len(a.data), a.signature_end, Len(r.s))
      v1 == [v EXCEPT !.digest_ranges = rr.ranges]
  IN IF r.b = <<>> THEN
       [v |-> v1, job |-> [NoJob EXCEPT !.state = "never"], events |-> <<"digest">>]
     ELSE
       [v |-> v1,
        job |-> [active |-> TRUE, da |-> r.da, bytes |-> a.data, state |-> "pending"],
        events |-> <<"digest", "subtle.digest">>]

\* The executor of digest(), lines 482-610, up to the point where it returns:
\* the context it leaves, the crypto.subtle.digest job it started and the
\* state of its promise ("pending": the job settles it, "rejected": line 546
\* or 591 rejected it, "never": nothing will settle it).
digest(r, v, a, throws) ==
  digestOn(r, v, a, throws,
           ResolveRanges(r.b, Len(a.data), a.signature_end, Len(r.s)))

OutOfBounds(r, a, rr) == r.b # <<>> /\ ~rr.threw /\ ~InBounds(a.data, rr.ranges)

\* MediaAsset.assembleBuffer on a range outside the buffer either throws or
\* clamps; on ranges inside the buffer it does not throw.
AssembleThrows(r, a) ==
  IF OutOfBounds(r, a, ResolveRanges(r.b, Len(a.data), a.signature_end, Len(r.s)))
  THEN BOOLEAN
  ELSE {FALSE}

CallDigestOn(p, d, pre) ==
  /\ validation' = d.v
  /\ digestJob' = [digestJob EXCEPT ![p] = d.job]
  /\ pc' = [pc EXCEPT ![p] = IF d.job.state = "never" THEN "stuck" ELSE "digest"]
  /\ log' = [log EXCEPT ![p] = @ \o pre \o d.events]

\* validateSig calls digest() (line 350) and suspends on its promise.
CallDigest(p, r, v, a, throws, pre) == CallDigestOn(p, digest(r, v, a, throws), pre)

\* A result that reports an asset without a segment as an invalid signature.
NoSignatureResult_Invalid(rs) ==
  [rs EXCEPT !.message = "No SEAL signatures found.", !.valid = "false"]

\* Lines 288-291: the result for an asset without a SEAL segment.
NoSignatureResult(rs) == [rs EXCEPT !.message = "No SEAL signatures found."]

\* A validateSig that looks the key up on every call.
CacheHit_Never(keys) == FALSE

\* Line 305: the cache is consulted before any lookup.
CacheHit(keys) == keys.present

\* Lines 282-319 and 350: the call runs to its first suspension point.
Start(p, a, verbose) ==
  /\ pc[p] = "idle"
  /\ IF ~a.has_segments THEN
       /\ result_summary' = [result_summary EXCEPT ![p] = NoSignatureResult(@)]
       /\ promise' = [promise EXCEPT ![p] = Resolve(@, result_summary'[p])]
       /\ pc' = [pc EXCEPT ![p] = "done"]
       /\ asset' = [asset EXCEPT ![p] = a]
       /\ UNCHANGED <<public_keys, record, validation, recordOwner, validationOwner,
                      domain, digestJob, log, foreign>>
     ELSE IF ~RecordComplete(a.attrs) THEN
       \* parse throws inside the executor
       /\ validation' = FreshValidation(verbose)
       /\ validationOwner' = p
       /\ asset' = [asset EXCEPT ![p] = [a EXCEPT !.signature_end = ParsedSignatureEnd(a)]]
       /\ pc' = [pc EXCEPT ![p] = "threw"]
       /\ log' = [log EXCEPT ![p] = @ \o <<"parse", "throw:SEAL_RECORD_MISSING_PARAMETERS">>]
       /\ UNCHANGED <<public_keys, record, recordOwner, domain, result_summary,
                      promise, digestJob, foreign>>
     ELSE
       LET r == parse(a.attrs)
           a1 == [a EXCEPT !.signature_end = ParsedSignatureEnd(a)]
       IN /\ record' = r
          /\ recordOwner' = p
          /\ validationOwner' = p
          /\ asset' = [asset EXCEPT ![p] = a1]
          /\ domain' = [domain EXCEPT ![p] = r.d]
          /\ IF ~CacheHit(public_keys[r.d]) THEN
               /\ validation' = FreshValidation(verbose)
               /\ pc' = [pc EXCEPT ![p] = "dns"]
               /\ log' = [log EXCEPT ![p] = @ \o <<"parse", "dns">>]
               /\ UNCHANGED digestJob
             ELSE
               \E throws \in AssembleThrows(r, a1) :
                 CallDigest(p, r, FreshValidation(verbose), a1, throws, <<"parse">>)
          /\ UNCHANGED <<public_keys, result_summary, promise, foreign>>
  /\ UNCHANGED <<TXTRecords, cryptoKey, verifyArgs, ddPromise, rq>>

\* A cache fill that keeps the first key seen for an algorithm.
RECURSIVE StoreKeys_KeepFirst(_, _)
StoreKeys_KeepFirst(keys, list) ==
  IF list = <<>> THEN keys
  ELSE LET rec == Head(list)
           usable == rec.ka # "" /\ rec.seal # "" /\ rec.p # ""
           k1 == IF usable THEN [keys EXCEPT !.present = TRUE] ELSE keys
           k2 == IF usable /\ rec.ka = "rsa" /\ k1.rsa = ""
                 THEN [k1 EXCEPT !.rsa = rec.p] ELSE k1
           k3 == IF usable /\ rec.ka = "ec" /\ k2.ec = ""
                 THEN [k2 EXCEPT !.ec = rec.p] ELSE k2
       IN StoreKeys_KeepFirst(k3, Tail(list))

\* The forEach of lines 322-336 over the records DNS returned.
RECURSIVE StoreKeys(_, _)
StoreKeys(keys, list) ==
  IF list = <<>> THEN keys
  ELSE LET rec == Head(list)
           usable == rec.ka # "" /\ rec.seal # "" /\ rec.p # ""
           k1 == IF usable THEN [keys EXCEPT !.present = TRUE] ELSE keys
           k2 == IF usable /\ rec.ka = "rsa" THEN [k1 EXCEPT !.rsa = rec.p] ELSE k1
           k3 == IF usable /\ rec.ka = "ec" THEN [k2 EXCEPT !.ec = rec.p] ELSE k2
       IN StoreKeys(k3, Tail(list))

\* this.public_keys[d][ka], lines 370 and 375 ("" when there is no such key).
KeyOf(keys, ka) ==
  IF ka = "rsa" THEN keys.rsa ELSE IF ka = "ec" THEN keys.ec ELSE ""

\* Lines 306-350: DoH.getDNSTXTRecords settles and the call goes on.
DnsReturn(p, ans) ==
  /\ pc[p] = "dns"
  /\ IF ans.kind = "fail" THEN
       /\ promise' = [promise EXCEPT ![p] = Reject(@, "DNS_LOOKUP")]
       /\ pc' = [pc EXCEPT ![p] = "done"]
       /\ log' = [log EXCEPT ![p] = @ \o <<"fail:DNS_LOOKUP">>]
       /\ foreign' = [foreign EXCEPT ![p] = @ \/ recordOwner # p]
       /\ UNCHANGED <<public_keys, validation, digestJob>>
     ELSE IF ans.kind = "nothing" THEN
       /\ pc' = [pc EXCEPT ![p] = "done"]
       /\ UNCHANGED <<public_keys, validation, digestJob, promise, log, foreign>>
     ELSE
       LET keys == StoreKeys(public_keys[domain[p]], ans.list)
       IN /\ public_keys' = [public_keys EXCEPT ![domain[p]] = keys]
          /\ IF ~keys.present THEN
               /\ promise' = [promise EXCEPT ![p] = Reject(@, "DNS_LOOKUP")]
               /\ pc' = [pc EXCEPT ![p] = "done"]
               /\ log' = [log EXCEPT ![p] = @ \o <<"fail:DNS_LOOKUP">>]
               /\ UNCHANGED <<validation, digestJob, foreign>>
             ELSE
               /\ \E throws \in AssembleThrows(record, asset[p]) :
                    CallDigest(p, record, validation, asset[p], throws, <<>>)
               /\ foreign' = [foreign EXCEPT ![p] =
                                 @ \/ recordOwner # p \/ validationOwner # p]
               /\ UNCHANGED promise
  /\ TXTRecords' = [TXTRecords EXCEPT ![p] = ans.list]
  /\ UNCHANGED <<record, recordOwner, validationOwner, asset, domain, result_summary,
                 cryptoKey, verifyArgs, ddPromise, rq>>

AfterDigestOn(p, dd, failed) ==
  /\ validation' = dd.v
  /\ ddPromise' = [ddPromise EXCEPT ![p] = dd.error]
  /\ promise' = [promise EXCEPT ![p] =
                    IF failed THEN RejectWith(@, "DIGEST_ERROR", "Digest can not be processed")
                    ELSE @]
  /\ log' = [log EXCEPT ![p] = @ \o (IF failed THEN <<"fail:DIGEST_ERROR">> ELSE <<>>)
                                 \o <<"doubleDigest">>]
  /\ pc' = [pc EXCEPT ![p] = "dd"]
  /\ foreign' = [foreign EXCEPT ![p] = @ \/ recordOwner # p \/ validationOwner # p]

\* Lines 350-367: the promise of digest() settles, the call reports a failure
\* and, either way, goes on to call doubleDigest().
AfterDigest(p, v, failed) == AfterDigestOn(p, doubleDigest(record, v), failed)

\* Lines 599-608: crypto.subtle.digest settles while the call awaits digest().
DigestSettle(p, ok) ==
  /\ pc[p] = "digest"
  /\ digestJob[p].state = "pending"
  /\ digestJob' = [digestJob EXCEPT ![p] = NoJob]
  /\ AfterDigest(p, IF ok THEN [validation EXCEPT !.digest1 =
                                   Digest(digestJob[p].da, digestJob[p].bytes)]
                     ELSE validation, ~ok)
  /\ UNCHANGED <<public_keys, record, recordOwner, validationOwner, asset, domain,
                 TXTRecords, result_summary, cryptoKey, verifyArgs, rq>>

\* Lines 546, 591 and 350-358: digest() had already rejected its promise.
DigestRejected(p) ==
  /\ pc[p] = "digest"
  /\ digestJob[p].state = "rejected"
  /\ digestJob' = [digestJob EXCEPT ![p].state = "stray"]
  /\ AfterDigest(p, validation, TRUE)
  /\ UNCHANGED <<public_keys, record, recordOwner, validationOwner, asset, domain,
                 TXTRecords, result_summary, cryptoKey, verifyArgs, rq>>

\* Lines 599-605: the crypto.subtle.digest started by a digest() that had
\* rejected settles later and still stores its result in SEAL.validation.
DigestStray(p, ok) ==
  /\ digestJob[p].state = "stray"
  /\ digestJob[p].active
  /\ digestJob' = [digestJob EXCEPT ![p] = NoJob]
  /\ validation' = IF ok THEN [validation EXCEPT !.digest1 =
                                  Digest(digestJob[p].da, digestJob[p].bytes)]
                   ELSE validation
  /\ UNCHANGED <<public_keys, record, recordOwner, validationOwner, pc, asset,
                 domain, TXTRecords,
                 result_summary, promise, cryptoKey, verifyArgs, ddPromise, log,
                 foreign, rq>>

\* Lines 359-383: the promise of doubleDigest() has settled; the call reports
\* a failure, derives the algorithm parameters and starts the key import.
AfterDoubleDigest(p) ==
  /\ pc[p] = "dd"
  /\ promise' = [promise EXCEPT ![p] =
                    IF ddPromise[p] # ""
                    THEN RejectWith(@, "DIGEST_ERROR", "doubleDigest can not be processed")
                    ELSE @]
  /\ foreign' = [foreign EXCEPT ![p] = @ \/ recordOwner # p]
  /\ IF ~public_keys[record.d].present THEN
       \* this.public_keys[this.record.d] is undefined: the executor throws
       /\ pc' = [pc EXCEPT ![p] = "threw"]
       /\ log' = [log EXCEPT ![p] = @ \o (IF ddPromise[p] # "" THEN <<"fail:DIGEST_ERROR">>
                                           ELSE <<>>) \o <<"throw:TypeError">>]
       /\ UNCHANGED cryptoKey
     ELSE
       /\ pc' = [pc EXCEPT ![p] = "import"]
       /\ cryptoKey' = [cryptoKey EXCEPT ![p] =
                           [key |-> KeyOf(public_keys[record.d], record.ka),
                            imported |-> FALSE]]
       /\ log' = [log EXCEPT ![p] = @ \o (IF ddPromise[p] # "" THEN <<"fail:DIGEST_ERROR">>
                                           ELSE <<>>) \o <<"importKey">>]
  /\ UNCHANGED <<public_keys, record, validation, recordOwner, validationOwner, asset,
                 domain, TXTRecords, result_summary, digestJob, verifyArgs, ddPromise, rq>>

\* Crypto.importCryptoKey cannot import a key that is not there.
ImportOutcomes(key) == IF key = "" THEN {FALSE} ELSE BOOLEAN

\* Lines 375-393 and 461-468: the key import settles; the call starts the
\* verification or rejects.
ImportReturn(p, ok) ==
  /\ pc[p] = "import"
  /\ ok \in ImportOutcomes(cryptoKey[p].key)
  /\ cryptoKey' = [cryptoKey EXCEPT ![p].imported = ok]
  /\ foreign' = [foreign EXCEPT ![p] = @ \/ validationOwner # p]
  /\ LET pr == IF ok THEN promise[p] ELSE Reject(promise[p], "KEY_IMPORT_ERROR")
         ev == IF ok THEN <<>> ELSE <<"fail:KEY_IMPORT_ERROR">>
     IN IF validation.digest2 # <<>> /\ validation.signature # <<>> /\ ok THEN
          /\ verifyArgs' = [verifyArgs EXCEPT ![p] =
                               [digest2 |-> validation.digest2,
                                signature_bytes |-> validation.signature_bytes,
                                key |-> cryptoKey[p].key]]
          /\ promise' = [promise EXCEPT ![p] = pr]
          /\ pc' = [pc EXCEPT ![p] = "verify"]
          /\ log' = [log EXCEPT ![p] = @ \o ev \o <<"verify">>]
        ELSE
          /\ promise' = [promise EXCEPT ![p] = Reject(pr, "VALIDATION_MISSING_PARAMETERS")]
          /\ pc' = [pc EXCEPT ![p] = "done"]
          /\ log' = [log EXCEPT ![p] = @ \o ev \o <<"fail:VALIDATION_MISSING_PARAMETERS">>]
          /\ UNCHANGED verifyArgs
  /\ UNCHANGED <<public_keys, record, validation, recordOwner, validationOwner, asset,
                 domain, TXTRecords, result_summary, digestJob, ddPromise, rq>>

\* Lines 388-434 and 460: verifySignature settles; the call fills the result
\* and resolves, or, when verbose, starts the digest of the signed value.
VerifyReturn(p, ok) ==
  /\ pc[p] = "verify"
  /\ foreign' = [foreign EXCEPT ![p] = @ \/ validationOwner # p
                                         \/ (validation.verbose /\ recordOwner # p)]
  /\ LET accepted == ok /\ verifySignature(verifyArgs[p].digest2,
                                           verifyArgs[p].signature_bytes,
                                           verifyArgs[p].key)
         pr == IF ok THEN promise[p] ELSE Reject(promise[p], "SIGNATURE_VERIFY_ERROR")
         ev == IF ok THEN <<>> ELSE <<"fail:SIGNATURE_VERIFY_ERROR">>
         rs == [result_summary[p] EXCEPT
                  !.message = IF accepted THEN "SEAL record #1 is valid."
                              ELSE "SEAL record #1 is NOT valid.",
                  !.valid = IF accepted THEN "true" ELSE "false",
                  !.filename = asset[p].name]
         rv == [rs EXCEPT
                  !.verbose = TRUE,
                  !.domain = record.d,
                  !.signed_on = IF validation.signature_date # <<>>
                                THEN createDate(validation.signature_date) ELSE <<>>,
                  !.digest = validation.digest1]
     IN IF ~validation.verbose THEN
          /\ result_summary' = [result_summary EXCEPT ![p] = rs]
          /\ promise' = [promise EXCEPT ![p] = Resolve(pr, rs)]
          /\ pc' = [pc EXCEPT ![p] = "done"]
          /\ log' = [log EXCEPT ![p] = @ \o ev]
          /\ UNCHANGED verifyArgs
        ELSE IF validation.digest1 = <<>> \/ validation.digest2 = <<>> THEN
          \* Array.from(undefined) or digest(undefined): the executor throws
          /\ result_summary' = [result_summary EXCEPT ![p] = rs]
          /\ promise' = [promise EXCEPT ![p] = pr]
          /\ pc' = [pc EXCEPT ![p] = "threw"]
          /\ log' = [log EXCEPT ![p] = @ \o ev \o <<"throw:TypeError">>]
          /\ UNCHANGED verifyArgs
        ELSE
          \* double_digest holds the digest in flight until it settles
          /\ result_summary' = [result_summary EXCEPT ![p] =
                 [rv EXCEPT !.double_digest = Digest(record.da, validation.digest2)]]
          /\ promise' = [promise EXCEPT ![p] = pr]
          /\ UNCHANGED verifyArgs
          /\ pc' = [pc EXCEPT ![p] = "vdigest"]
          /\ log' = [log EXCEPT ![p] = @ \o ev \o <<"subtle.digest2">>]
  /\ UNCHANGED <<public_keys, record, validation, recordOwner, validationOwner, asset,
                 domain, TXTRecords, cryptoKey, digestJob, ddPromise, rq>>

\* digest_range[0] + '-' + (digest_range[1] - 1), lines 446-448.
RECURSIVE RangesSummary(_)
RangesSummary(ranges) ==
  IF ranges = <<>> THEN <<>>
  ELSE <<<<Head(ranges)[1], Head(ranges)[2] - 1>>>> \o RangesSummary(Tail(ranges))

\* Lines 434-460: the digest of the signed value settles; the call completes
\* the verbose report and resolves.
VerboseReturn(p, ok) ==
  /\ pc[p] = "vdigest"
  /\ foreign' = [foreign EXCEPT ![p] = @ \/ validationOwner # p \/ recordOwner # p]
  /\ IF ~ok \/ ~public_keys[record.d].present THEN
       /\ pc' = [pc EXCEPT ![p] = "threw"]
       /\ log' = [log EXCEPT ![p] = @ \o <<"throw:Error">>]
       /\ validation' = IF ok
                        THEN [validation EXCEPT !.digest2 = result_summary[p].double_digest]
                        ELSE validation
       /\ UNCHANGED <<result_summary, promise>>
     ELSE
       LET v == [validation EXCEPT !.digest2 = result_summary[p].double_digest]
           rs == [result_summary[p] EXCEPT
                    !.double_digest = v.digest2,
                    !.key_algorithm = <<record.ka, cryptoKey[p].key>>,
                    !.digest_algorithm = record.da,
                    !.key_base64 = KeyOf(public_keys[record.d], record.ka),
                    !.signed_bytes = RangesSummary(v.digest_ranges),
                    !.spans = v.digest_summary,
                    !.user = record.id]
       IN /\ validation' = v
          /\ result_summary' = [result_summary EXCEPT ![p] = rs]
          /\ promise' = [promise EXCEPT ![p] = Resolve(@, rs)]
          /\ pc' = [pc EXCEPT ![p] = "done"]
          /\ UNCHANGED log
  /\ UNCHANGED <<public_keys, record, recordOwner, validationOwner, asset, domain,
                 TXTRecords, cryptoKey, digestJob, verifyArgs, ddPromise, rq>>

\* ------------------------------------------------------ the specifications
Finished(p) == pc[p] \in {"done", "threw", "stuck"}

\* Calls are numbered in the order in which they are made.
NextCall(p) == \A q \in Passes : q < p <=> pc[q] # "idle"

\* A caller that makes one call after the other has finished.
StartAlone(p, a, verbose) ==
  /\ NextCall(p)
  /\ \A q \in Passes : pc[q] = "idle" \/ Finished(q)
  /\ Start(p, a, verbose)

\* A caller that makes a call while earlier calls are suspended.
StartOverlapping(p, a, verbose) ==
  /\ NextCall(p)
  /\ Start(p, a, verbose)

\* The verbose report is asked for the assets that can have one.
VerboseChoices(a) == IF a.name \in {"signed", "other"} THEN BOOLEAN ELSE {FALSE}

Steps ==
  \/ \E p \in Passes, ans \in DnsAnswers : DnsReturn(p, ans)
  \/ \E p \in Passes, ok \in BOOLEAN : DigestSettle(p, ok)
  \/ \E p \in Passes : DigestRejected(p)
  \/ \E p \in Passes, ok \in BOOLEAN : DigestStray(p, ok)
  \/ \E p \in Passes : AfterDoubleDigest(p)
  \/ \E p \in Passes, ok \in BOOLEAN : ImportReturn(p, ok)
  \/ \E p \in Passes, ok \in BOOLEAN : VerifyReturn(p, ok)
  \/ \E p \in Passes, ok \in BOOLEAN : VerboseReturn(p, ok)

Next ==
  \/ \E p \in Passes, a \in Assets : \E verbose \in VerboseChoices(a) :
        StartAlone(p, a, verbose)
  \/ Steps

Spec == Init /\ [][Next]_vars

\* The assets of the calls that overlap.
OverlapAssets == {a \in Assets : a.name \in {"signed", "other", "bad-anchor"}}

NextOverlapping ==
  \/ \E p \in Passes, a \in OverlapAssets : \E verbose \in VerboseChoices(a) :
        StartOverlapping(p, a, verbose)
  \/ Steps

OverlapSpec == Init /\ [][NextOverlapping]_vars

\* ----------------------------------------- range resolution on its own
Anchors == {"F", "f", "S", "s", "P", "p", "X"}

RECURSIVE NatText(_)
NatText(n) == IF n < 10 THEN <<Digits[n + 1]>>
              ELSE NatText(n \div 10) \o <<Digits[(n % 10) + 1]>>

\* The endpoints <anchor>, <anchor>+<offset> and <anchor>-<offset>.
Endpoints ==
  {[anchor |-> a, op |-> "", off |-> 0] : a \in Anchors}
    \cup {[anchor |-> a, op |-> o, off |-> n] :
             a \in Anchors, o \in {"+", "-"}, n \in 0..MaxOffset}

EndpointText(e) ==
  <<e.anchor>> \o (IF e.op = "" THEN <<>> ELSE <<e.op>> \o NatText(e.off))

RangeInputs ==
  {[start |-> st, stop |-> sp, size |-> n, signature_end |-> n, slen |-> l,
    done |-> FALSE, ranges |-> <<>>, rejected |-> FALSE] :
      st \in Endpoints, sp \in Endpoints, n \in 0..MaxSize, l \in {0, 1}}

RangeInit == PassInit /\ rq \in RangeInputs

\* digest() resolves the one-token expression <start>~<stop>.
Resolve1 ==
  /\ ~rq.done
  /\ LET rr == ResolveRanges(EndpointText(rq.start) \o <<"~">> \o EndpointText(rq.stop),
                             rq.size, rq.signature_end, rq.slen)
     IN rq' = [rq EXCEPT !.done = TRUE, !.ranges = rr.ranges, !.rejected = rr.rejected]
  /\ UNCHANGED <<public_keys, record, validation, recordOwner, validationOwner, pc,
                 asset, domain, TXTRecords, result_summary, promise, cryptoKey,
                 digestJob, verifyArgs, ddPromise, log, foreign>>

RangeSpec == RangeInit /\ [][Resolve1]_vars

\* ------------------------------------------- signature decoding on its own
\* YYYYMMDDhhmmss
Stamp == <<"2", "0", "2", "4", "0", "3", "2", "6", "1", "6", "4", "4", "0", "1">>

Fractions == 0..MaxFraction

\* The date a signer writes with n fractional digits.
DateText(n) ==
  Stamp \o (IF n = 0 THEN <<>>
            ELSE <<".">> \o [i \in 1..n |-> IF i = 1 THEN "5" ELSE "0"])

DateWord == <<"d", "a", "t", "e">>

\* The tokens date, date0, date1, ...
DateTokens == {DateWord} \cup {DateWord \o NatText(n) : n \in Fractions}

Residuals == {<<>>, <<"d", "e", "a", "d">>, <<"D", "E", "A", "D">>,
              <<"3", "q", "0", "=">>, <<"z", "z">>,
              <<"h", "e", "x", ":", "d", "e">>}

SignatureTexts ==
  {pre \o sep \o res :
     pre \in {<<>>} \cup {DateText(n) : n \in Fractions},
     sep \in {<<>>, <<":">>},
     res \in Residuals}

FormatLists ==
  {<<>>} \cup {<<e>> : e \in Encodings} \cup {<<d>> : d \in DateTokens}
    \cup {<<d, e>> : d \in DateTokens, e \in Encodings}
    \cup {<<e, d>> : d \in DateTokens, e \in Encodings}

RECURSIVE Join(_, _)
Join(list, sep) ==
  IF list = <<>> THEN <<>>
  ELSE IF Len(list) = 1 THEN list[1]
  ELSE list[1] \o <<sep>> \o Join(Tail(list), sep)

DecodeInputs ==
  {[s |-> s, formats |-> f, id |-> i, digest1 |-> d, done |-> FALSE,
    v |-> FreshValidation(FALSE), error |-> ""] :
      s \in SignatureTexts, f \in FormatLists, i \in {<<>>, <<"u">>},
      d \in {<<>>, <<"SHA-256", "x">>}}

DecodeInit == PassInit /\ rq \in DecodeInputs

\* The record a signature text, a format list and an id come from.
DecodeRecord(q) ==
  [SignedAttrs EXCEPT !.s = q.s, !.sf = Join(q.formats, ":"), !.id = q.id]

DecodeResult(q, dd) == [q EXCEPT !.done = TRUE, !.v = dd.v, !.error = dd.error]

\* doubleDigest() on a fresh context that holds the first digest.
Decode1 ==
  /\ ~rq.done
  /\ rq' = DecodeResult(rq, doubleDigest(DecodeRecord(rq),
                                         [FreshValidation(FALSE) EXCEPT !.digest1 = rq.digest1]))
  /\ UNCHANGED <<public_keys, record, validation, recordOwner, validationOwner, pc,
                 asset, domain, TXTRecords, result_summary, promise, cryptoKey,
                 digestJob, verifyArgs, ddPromise, log, foreign>>

DecodeSpec == DecodeInit /\ [][Decode1]_vars

\* ----------------------------------------------- record parsing on its own
\* The spellings of a digest algorithm token in lower, upper and mixed case.
Spellings(alg) ==
  IF alg = "SHA-1" THEN {"sha1", "SHA1", "Sha1"}
  ELSE IF alg = "SHA-256" THEN {"sha256", "SHA256", "Sha256"}
  ELSE IF alg = "SHA-384" THEN {"sha384", "SHA384", "Sha384"}
  ELSE {"sha512", "SHA512", "Sha512"}

DigestAlgorithms == {"SHA-1", "SHA-256", "SHA-384", "SHA-512"}

DaTexts == {"", "md5", "SHA-512"} \cup UNION {Spellings(alg) : alg \in DigestAlgorithms}

ParseInputs ==
  {[attrs |-> [NoAttrs EXCEPT !.seal = v, !.d = d, !.ka = ka, !.s = sig, !.da = da],
    done |-> FALSE, threw |-> FALSE, da |-> "", record |-> NoRecord] :
      v \in {"", "1"}, d \in {"", "a.org"}, ka \in {"", "rsa"},
      sig \in {<<>>, <<"d", "e">>}, da \in DaTexts}

ParseInit == PassInit /\ rq \in ParseInputs

\* parse() on the attributes of one segment: sealRecord.da is resolved, then
\* the record is stored or the call throws.
Parse1 ==
  /\ ~rq.done
  /\ rq' = [rq EXCEPT !.done = TRUE,
                      !.da = DigestAlgorithm(rq.attrs.da),
                      !.threw = ~RecordComplete(rq.attrs),
                      !.record = IF RecordComplete(rq.attrs) THEN parse(rq.attrs)
                                 ELSE NoRecord]
  /\ UNCHANGED <<public_keys, record, validation, recordOwner, validationOwner, pc,
                 asset, domain, TXTRecords, result_summary, promise, cryptoKey,
                 digestJob, verifyArgs, ddPromise, log, foreign>>

ParseSpec == ParseInit /\ [][Parse1]_vars

\* ------------------------------------- range expressions of several tokens
\* Tokens <anchor>~<anchor> without offsets.
TokenPairs == {[start |-> a, stop |-> b] : a \in Anchors, b \in Anchors}

TokenLists == UNION {[1..n -> TokenPairs] : n \in 1..MaxTokens}

TokenText(t) == <<t.start, "~", t.stop>>

\* The expression b: the tokens separated by commas.
ExpressionText(tokens) == Join([i \in 1..Len(tokens) |-> TokenText(tokens[i])], ",")

\* An asset of MaxSize bytes with its signature text before the last byte,
\* or at the very end.
RangeListInputs ==
  {[tokens |-> ts, size |-> MaxSize, signature_end |-> e.signature_end, slen |-> e.slen,
    done |-> FALSE, ranges |-> <<>>, rejected |-> FALSE] :
      ts \in TokenLists,
      e \in {[signature_end |-> MaxSize - 1, slen |-> 1],
             [signature_end |-> MaxSize, slen |-> 2]}}

RangeListInit == PassInit /\ rq \in RangeListInputs

RangeListResult(q, rr) ==
  [q EXCEPT !.done = TRUE, !.ranges = rr.ranges, !.rejected = rr.rejected]

\* digest() resolves the expression of rq.
ResolveList ==
  /\ ~rq.done
  /\ rq' = RangeListResult(rq, ResolveRanges(ExpressionText(rq.tokens), rq.size,
                                             rq.signature_end, rq.slen))
  /\ UNCHANGED <<public_keys, record, validation, recordOwner, validationOwner, pc,
                 asset, domain, TXTRecords, result_summary, promise, cryptoKey,
                 digestJob, verifyArgs, ddPromise, log, foreign>>

RangeListSpec == RangeListInit /\ [][ResolveList]_vars

\* --------------------------------------------- the tokens date and date0
NoOutcome == [v |-> FreshValidation(FALSE), error |-> ""]

DatePairInputs ==
  {[s |-> s, encoding |-> e, id |-> i, digest1 |-> d, done |-> FALSE,
    plain |-> NoOutcome, zero |-> NoOutcome] :
      s \in SignatureTexts, e \in Encodings, i \in {<<>>, <<"u">>},
      d \in {<<>>, <<"SHA-256", "x">>}}

DatePairInit == PassInit /\ rq \in DatePairInputs

\* doubleDigest() on a fresh context for the signature text of q under the
\* format <token>:<encoding>.
DecodeUnder(q, token) ==
  doubleDigest([SignedAttrs EXCEPT !.s = q.s, !.id = q.id,
                                   !.sf = Join(<<token, q.encoding>>, ":")],
               [FreshValidation(FALSE) EXCEPT !.digest1 = q.digest1])

\* The same signature text is decoded under date:<enc> and under date0:<enc>.
DecodePair ==
  /\ ~rq.done
  /\ rq' = [rq EXCEPT !.done = TRUE,
                      !.plain = DecodeUnder(rq, DateWord),
                      !.zero = DecodeUnder(rq, DateWord \o <<"0">>)]
  /\ UNCHANGED <<public_keys, record, validation, recordOwner, validationOwner, pc,
                 asset, domain, TXTRecords, result_summary, promise, cryptoKey,
                 digestJob, verifyArgs, ddPromise, log, foreign>>

DatePairSpec == DatePairInit /\ [][DecodePair]_vars

\* ------------------------------------------------------------- the claims
Has(l, e) == \E i \in 1..Len(l) : l[i] = e

FailEvents == {"fail:DNS_LOOKUP", "fail:range", "fail:DIGEST_ERROR",
               "fail:KEY_IMPORT_ERROR", "fail:SIGNATURE_VERIFY_ERROR",
               "fail:VALIDATION_MISSING_PARAMETERS", "throw:TypeError",
               "throw:Error", "throw:SEAL_RECORD_MISSING_PARAMETERS"}

StageEvents == {"digest", "subtle.digest", "doubleDigest", "importKey", "verify"}

CapabilityEvents == {"dns", "subtle.digest", "importKey", "verify", "subtle.digest2"}

NoFailure(p) == \A i \in 1..Len(log[p]) : log[p][i] \notin FailEvents

\* The call went through every stage, the verify capability answered and
\* the executor returned.
CleanPass(p) == pc[p] = "done" /\ Has(log[p], "verify") /\ NoFailure(p)

\* C1: a pass whose record parses, whose key is resolved and whose digest,
\* decoding, double-digest and key-import stages succeed resolves, without an
\* error, with valid = true exactly when the verify capability accepts the
\* signed value, the decoded signature and the key; the signed asset verifies
\* under key K1 and the asset with one digested byte changed never does.
C1_ValidFollowsVerify ==
  \A p \in Passes :
    /\ CleanPass(p) =>
         /\ promise[p].state = "resolved"
         /\ promise[p].value.valid =
              IF verifySignature(verifyArgs[p].digest2, verifyArgs[p].signature_bytes,
                                 verifyArgs[p].key)
              THEN "true" ELSE "false"
         /\ verifyArgs[p].key = KeyOf(public_keys[asset[p].attrs.d], asset[p].attrs.ka)
    /\ (CleanPass(p) /\ asset[p].name = "signed" /\ cryptoKey[p].key = "K1")
         => promise[p].value.valid = "true"
    /\ (CleanPass(p) /\ asset[p].name = "flipped")
         => promise[p].value.valid = "false"

C1_Witness ==
  \E p, q \in Passes :
    /\ CleanPass(p) /\ asset[p].name = "signed" /\ promise[p].value.valid = "true"
    /\ CleanPass(q) /\ asset[q].name = "flipped" /\ promise[q].value.valid = "false"
    /\ cryptoKey[q].key = "K1"

\* C2: a located segment whose record lacks seal, d, ka or s makes the call
\* reject with SEAL_RECORD_MISSING_PARAMETERS, and no DNS, digest, key-import
\* or verify capability is invoked in that pass.
C2_RecordIncompleteDelivered ==
  \A p \in Passes :
    (pc[p] # "idle" /\ asset[p].has_segments /\ ~RecordComplete(asset[p].attrs)) =>
       /\ promise[p].state = "rejected"
       /\ promise[p].error = "SEAL_RECORD_MISSING_PARAMETERS"
       /\ \A i \in 1..Len(log[p]) : log[p][i] \notin CapabilityEvents

\* C3: once a stage of a pass has failed, no later stage of that pass (digest,
\* doubleDigest, key import, verify) is started.
C3_NoStageAfterFailure ==
  \A p \in Passes :
    \A i, j \in 1..Len(log[p]) :
       (i < j /\ log[p][i] \in FailEvents) => log[p][j] \notin StageEvents

\* C4: every call settles: once its executor has returned or thrown, or waits
\* for a promise that nothing will settle, the promise it returned is resolved
\* or rejected.
C4_EveryCallSettles ==
  \A p \in Passes : Finished(p) => promise[p].state # "pending"

\* The other calls made so far are on other assets.
OnItsOwnAsset(p) ==
  \A q \in Passes : (q # p /\ pc[q] # "idle") => asset[q].name # asset[p].name

\* C5: a pass that overlaps passes on other assets reads no record or
\* validation context written by another pass, and its result is the one it
\* produces alone: verbose only if asked, naming its own record's domain and
\* signer.
C5_PassesIsolated ==
  \A p \in Passes :
    (pc[p] # "idle" /\ OnItsOwnAsset(p)) =>
       /\ ~foreign[p]
       /\ (promise[p].state = "resolved" /\ promise[p].value.verbose) =>
             /\ promise[p].value.domain = asset[p].attrs.d
             /\ promise[p].value.user = asset[p].attrs.id

\* The call looked the domain up and stored a key for it.
Populated(p) ==
  \E i \in 1..Len(log[p]) :
     log[p][i] = "dns" /\ i < Len(log[p]) /\ log[p][i + 1] = "digest"

PastImport(p) == Has(log[p], "importKey") /\ pc[p] # "dd"

\* C6: after a pass has populated the key cache for a domain, a later pass for
\* that domain does not invoke the DNS collaborator (so it is invoked at most
\* once), and passes for the same domain and key algorithm obtain the same key.
C6_CachedKeyReused ==
  \A p, q \in Passes :
    (p < q /\ Populated(p) /\ pc[q] # "idle" /\ domain[q] = domain[p]) =>
       /\ ~Has(log[q], "dns")
       /\ (PastImport(p) /\ PastImport(q) /\ asset[p].attrs.ka = asset[q].attrs.ka)
             => cryptoKey[q].key = cryptoKey[p].key

C6_Witness ==
  \E p, q \in Passes :
    /\ p < q /\ Populated(p) /\ domain[q] = domain[p]
    /\ PastImport(p) /\ PastImport(q) /\ cryptoKey[q].key = "K1"

\* The DNS records of a list that are usable keys of algorithm ka.
UsableKeys(list, ka) ==
  SelectSeq(list, LAMBDA r : r.ka = ka /\ r.seal # "" /\ r.p # "")

Several(p, ka) == pc[p] \notin {"idle", "dns"} /\ Len(UsableKeys(TXTRecords[p], ka)) >= 2

\* C7 as stated: of several usable records with the same key algorithm the
\* cache keeps the key of the first.
C7_FirstRecordKept ==
  \A p \in Passes : \A ka \in {"rsa", "ec"} :
    Several(p, ka) =>
       KeyOf(public_keys[domain[p]], ka) = UsableKeys(TXTRecords[p], ka)[1].p

\* C7 amended: of several usable records with the same key algorithm the
\* cache holds exactly one key for the pair, the key of the last such record.
C7_LastRecordKept ==
  \A p \in Passes : \A ka \in {"rsa", "ec"} :
    Several(p, ka) =>
       KeyOf(public_keys[domain[p]], ka) =
          UsableKeys(TXTRecords[p], ka)[Len(UsableKeys(TXTRecords[p], ka))].p

C7_Witness ==
  \E p \in Passes : Several(p, "rsa") /\ public_keys[domain[p]].rsa = "K1"

\* C8: a call on an asset without a located segment resolves at once with
\* valid unset and the no-signature message, parses nothing, invokes no
\* capability and leaves the key cache, the record and the context alone.
C8_NoSegmentResolves ==
  [][\A p \in Passes :
       (pc[p] = "idle" /\ pc'[p] # "idle" /\ ~asset'[p].has_segments) =>
          /\ pc'[p] = "done"
          /\ promise'[p].state = "resolved"
          /\ promise'[p].value.valid = "unset"
          /\ promise'[p].value.message = "No SEAL signatures found."
          /\ log'[p] = <<>>
          /\ public_keys' = public_keys
          /\ record' = record
          /\ validation' = validation]_vars

C8_Witness ==
  \E p \in Passes :
    /\ pc[p] = "done" /\ ~asset[p].has_segments
    /\ promise[p].state = "resolved" /\ promise[p].value.valid = "unset"
    /\ \E d \in Domains : public_keys[d].present

\* The coordinate the specification gives an endpoint.
Expected(e, size, signature_end, slen) ==
  LET base == AnchorValue(<<e.anchor>>, size, signature_end, slen)
  IN IF e.op = "-" THEN base - e.off ELSE base + e.off

ResolvedOne == rq.done /\ ~rq.rejected /\ Len(rq.ranges) = 1

\* C9: an endpoint <anchor><op><offset> with a valid anchor resolves to
\* anchor_value + offset for '+' and anchor_value - offset for '-', at the
\* start and at the stop of the range.
C9_OffsetSigned ==
  (rq.done /\ rq.start.anchor # "X" /\ rq.stop.anchor # "X") =>
     /\ ResolvedOne
     /\ rq.ranges[1][1] = Expected(rq.start, rq.size, rq.signature_end, rq.slen)
     /\ rq.ranges[1][2] = Expected(rq.stop, rq.size, rq.signature_end, rq.slen)

ZeroOffset(e) == e.off = 0

\* C10: a range from anchor F to anchor f, each with no offset or an explicit
\* zero offset, resolves to [0, asset_size) for every asset size.
C10_WholeFile ==
  (rq.done /\ rq.start.anchor = "F" /\ rq.stop.anchor = "f"
     /\ ZeroOffset(rq.start) /\ ZeroOffset(rq.stop)) =>
        rq.ranges = <<<<0, rq.size>>>>

C10_Witness ==
  /\ rq.done /\ rq.start.anchor = "F" /\ rq.stop.anchor = "f"
  /\ rq.start.op = "+" /\ rq.stop.op = "-" /\ ZeroOffset(rq.start) /\ ZeroOffset(rq.stop)
  /\ rq.size = MaxSize /\ rq.ranges = <<<<0, MaxSize>>>>

\* The number of characters the claim gives the date for a date token.
DateLength(token) ==
  IF IsDigit(token[Len(token)]) THEN 15 + DigitVal(token[Len(token)]) ELSE 14

DateTokenOf(q) == CHOOSE t \in DateTokens : \E i \in 1..Len(q.formats) : q.formats[i] = t

\* The signature text holds no "<encoding>:" literal that would be removed.
NoLiteral(s) == \A e \in Encodings : ~Includes(s, e \o <<":">>)

DateCase(q) ==
  /\ q.done /\ q.s # <<>> /\ NoLiteral(q.s)
  /\ \E i \in 1..Len(q.formats) : q.formats[i] \in DateTokens

Removed(s, lit, out) ==
  IF Includes(s, lit)
  THEN \E i \in 1..Len(s) :
         MatchAt(s, lit, i) /\ out = SubSeq(s, 1, i - 1) \o SubSeq(s, i + Len(lit), Len(s))
  ELSE out = s

EncodingTokens == {<<"h", "e", "x">>, <<"H", "E", "X">>, Base64}

\* C12: after the decoding step signature_encoding is the encoding token sf
\* names (hex, HEX or base64), or base64 when sf is absent; the text decoded
\* is s with the literal "<token>:" removed if present; without sf no
\* signature_date is set.
C12_EncodingFromFormat ==
  (rq.done /\ rq.s # <<>>) =>
    /\ rq.formats = <<>> =>
          /\ rq.v.signature_encoding = Base64
          /\ rq.v.signature = rq.s
          /\ rq.v.signature_date = <<>>
    /\ (Len(rq.formats) = 1 /\ rq.formats[1] \in EncodingTokens) =>
          /\ rq.v.signature_encoding = rq.formats[1]
          /\ Removed(rq.s, rq.formats[1] \o <<":">>, rq.v.signature)
          /\ rq.v.signature_date = <<>>

C12_Witness ==
  /\ rq.done /\ rq.error = ""
  /\ rq.formats = <<<<"h", "e", "x">>>>
  /\ rq.s = <<"h", "e", "x", ":", "d", "e">>
  /\ rq.v.signature_encoding = <<"h", "e", "x">>
  /\ rq.v.signature = <<"d", "e">>
  /\ rq.v.signature_bytes = <<222>>

HasDateToken(q) == \E i \in 1..Len(q.formats) : q.formats[i] \in DateTokens

\* C13: the value handed to verify is signature_date and ':' (exactly when a
\* date was extracted), then the id and ':' (exactly when the record has an
\* id), then the first digest; the first digest alone when there is neither.
C13_SignedValueLayout ==
  (rq.done /\ rq.error = "") =>
    /\ HasDateToken(rq) <=> rq.v.signature_date # <<>>
    /\ rq.v.digest2 =
         (IF HasDateToken(rq) THEN rq.v.signature_date \o <<":">> ELSE <<>>)
           \o (IF rq.id # <<>> THEN rq.id \o <<":">> ELSE <<>>)
           \o rq.digest1
    /\ (~HasDateToken(rq) /\ rq.id = <<>>) => rq.v.digest2 = rq.digest1

C13_Witness ==
  /\ rq.done /\ rq.error = ""
  /\ rq.formats = <<DateWord \o <<"2">>, <<"h", "e", "x">>>>
  /\ rq.id = <<"u">>
  /\ rq.v.digest2 = DateText(2) \o <<":", "u", ":">> \o <<"SHA-256", "x">>

\* C14 as stated: every upper- or lower-case spelling of sha1, sha256, sha384
\* and sha512 resolves to SHA-1, SHA-256, SHA-384 and SHA-512; any other value
\* resolves to SHA-256.
C14_AnyCaseMapped ==
  rq.done =>
    /\ \A alg \in DigestAlgorithms : rq.attrs.da \in Spellings(alg) => rq.da = alg
    /\ (\A alg \in DigestAlgorithms : rq.attrs.da \notin Spellings(alg)) => rq.da = "SHA-256"

\* C15: a record with seal, d, ka and s and no da (or an empty one) resolves
\* to SHA-256, and every record resolves to one of the four algorithms.
C15_DefaultDigest ==
  rq.done =>
    /\ rq.da \in DigestAlgorithms
    /\ (RecordComplete(rq.attrs) /\ rq.attrs.da = "") =>
          (~rq.threw /\ rq.record.da = "SHA-256")
    /\ ~rq.threw => rq.record.da \in DigestAlgorithms

C15_Witness ==
  /\ rq.done /\ rq.attrs.da = "" /\ RecordComplete(rq.attrs)
  /\ ~rq.threw /\ rq.record.da = "SHA-256" /\ rq.record.s = <<"d", "e">>

\* The reject() calls of validateSig, by the error name they deliver.
RejectEvents == {"fail:DNS_LOOKUP", "fail:DIGEST_ERROR", "fail:KEY_IMPORT_ERROR",
                 "fail:SIGNATURE_VERIFY_ERROR", "fail:VALIDATION_MISSING_PARAMETERS"}

EventOf(name) ==
  IF name = "DNS_LOOKUP" THEN "fail:DNS_LOOKUP"
  ELSE IF name = "DIGEST_ERROR" THEN "fail:DIGEST_ERROR"
  ELSE IF name = "KEY_IMPORT_ERROR" THEN "fail:KEY_IMPORT_ERROR"
  ELSE IF name = "SIGNATURE_VERIFY_ERROR" THEN "fail:SIGNATURE_VERIFY_ERROR"
  ELSE IF name = "VALIDATION_MISSING_PARAMETERS" THEN "fail:VALIDATION_MISSING_PARAMETERS"
  ELSE "none"

Failures(p) == {i \in 1..Len(log[p]) : log[p][i] \in RejectEvents}

FirstFailure(p) == CHOOSE i \in Failures(p) : \A j \in Failures(p) : i <= j

\* The digest stage reported the failure at position i: doubleDigest() had
\* not been called yet.
ByDigestStage(p, i) ==
  log[p][i] = "fail:DIGEST_ERROR" /\ \A j \in 1..i : log[p][j] # "doubleDigest"

ByDoubleDigestStage(p, i) ==
  log[p][i] = "fail:DIGEST_ERROR" /\ \E j \in 1..i : log[p][j] = "doubleDigest"

\* C16: once a stage of a pass has failed the pass is rejected with the error
\* of the first stage that failed; no later failure replaces that error and
\* the pass delivers no result.
C16_FirstErrorDelivered ==
  \A p \in Passes :
    Failures(p) # {} =>
      /\ promise[p].state = "rejected"
      /\ promise[p].value = NoResult
      /\ EventOf(promise[p].error) = log[p][FirstFailure(p)]
      /\ ByDigestStage(p, FirstFailure(p)) =>
            promise[p].message = "Digest can not be processed"
      /\ ByDoubleDigestStage(p, FirstFailure(p)) =>
            promise[p].message = "doubleDigest can not be processed"

C16_Witness ==
  \E p \in Passes :
    /\ pc[p] = "done" /\ Failures(p) # {}
    /\ ByDigestStage(p, FirstFailure(p))
    /\ \E i, j \in Failures(p) :
         /\ ByDoubleDigestStage(p, i)
         /\ log[p][j] = "fail:KEY_IMPORT_ERROR"
    /\ Has(log[p], "fail:VALIDATION_MISSING_PARAMETERS")
    /\ promise[p].error = "DIGEST_ERROR"
    /\ promise[p].message = "Digest can not be processed"

\* The lookup of pass p answered with records and the cache holds no key for
\* the domain and key algorithm of its record.
KeyMissing(p) ==
  /\ pc[p] \notin {"idle", "dns"}
  /\ asset[p].has_segments /\ RecordComplete(asset[p].attrs)
  /\ Len(TXTRecords[p]) > 0
  /\ KeyOf(public_keys[asset[p].attrs.d], asset[p].attrs.ka) = ""

\* C17: when, after the cache check and the lookup, the cache holds no key
\* for the record's domain and key algorithm, the pass is rejected with the
\* key-not-found error, calls neither key import nor verify, and the cache
\* has gained no entry for the domain.
C17_KeyNotFound ==
  \A p \in Passes :
    KeyMissing(p) =>
      /\ promise[p].state = "rejected" /\ promise[p].error = "DNS_LOOKUP"
      /\ ~Has(log[p], "importKey") /\ ~Has(log[p], "verify")
      /\ ~public_keys[asset[p].attrs.d].present

\* doubleDigest() of pass p could not decode the signature text and the call
\* has taken notice of it.
DecodeFailed(p) ==
  ddPromise[p] = "decode error" /\ pc[p] \notin {"idle", "dns", "digest", "dd"}

\* C18: a signature text that cannot be decoded under its encoding makes
\* validateSig reject with SIGNATURE_FORMAT, and an empty signature text makes
\* it reject with SIGNATURE_MISSING.
C18_SignatureErrorKinds ==
  \A p \in Passes :
    /\ DecodeFailed(p) =>
          (promise[p].state = "rejected" /\ promise[p].error = "SIGNATURE_FORMAT")
    /\ (Finished(p) /\ asset[p].has_segments /\ asset[p].attrs.s = <<>>) =>
          (promise[p].state = "rejected" /\ promise[p].error = "SIGNATURE_MISSING")

\* digest() of pass p met an endpoint whose anchor is none of F, f, S, s, P, p.
BadAnchorMet(p) == Has(log[p], "fail:range")

\* C19: a range expression with an anchor outside F, f, S, s, P, p is a parse
\* failure: the pass is rejected, no further token of the expression is
\* resolved and the digest capability is not invoked on a partial range list.
C19_BadAnchorStops ==
  \A p \in Passes :
    BadAnchorMet(p) =>
      /\ ~Has(log[p], "subtle.digest")
      /\ validationOwner = p => validation.digest_ranges = <<>>
      /\ Finished(p) => promise[p].state = "rejected"

\* digest() of pass p resolved every token of its range expression and the
\* context still holds the ranges.
RangesResolved(p) ==
  /\ validationOwner = p /\ pc[p] \notin {"idle", "dns"}
  /\ asset[p].has_segments /\ RecordComplete(asset[p].attrs)
  /\ asset[p].attrs.b # <<>> /\ ~BadAnchorMet(p)

\* C20: every range handed on for digesting satisfies
\* 0 <= start <= end <= asset size; ranges that do not make the pass fail with
\* a digest error, and no digest is computed.
C20_RangesInBounds ==
  \A p \in Passes :
    RangesResolved(p) =>
      /\ Has(log[p], "subtle.digest") => InBounds(asset[p].data, validation.digest_ranges)
      /\ (~InBounds(asset[p].data, validation.digest_ranges) /\ Finished(p)) =>
            (promise[p].state = "rejected" /\ promise[p].error = "DIGEST_ERROR")

\* The value the claim gives an anchor that has no offset.
ZeroOffsetValue(a, q) ==
  IF a = "F" THEN 0
  ELSE IF a = "f" THEN q.size
  ELSE IF a = "S" THEN q.signature_end - q.slen
  ELSE IF a = "s" THEN q.signature_end
  ELSE 0

AllValid(q) ==
  \A i \in 1..Len(q.tokens) : q.tokens[i].start # "X" /\ q.tokens[i].stop # "X"

\* C21: for an expression whose anchors are all valid, digest_ranges holds one
\* (start, stop) pair per comma-separated token, in expression order, with F
\* resolved to 0, f to the asset size, S to the signature end minus the length
\* of s, s to the signature end, and P and p to 0.
C21_OnePairPerToken ==
  (rq.done /\ AllValid(rq)) =>
    /\ ~rq.rejected
    /\ Len(rq.ranges) = Len(rq.tokens)
    /\ \A i \in 1..Len(rq.tokens) :
         rq.ranges[i] = <<ZeroOffsetValue(rq.tokens[i].start, rq),
                          ZeroOffsetValue(rq.tokens[i].stop, rq)>>

C21_Witness ==
  /\ rq.done /\ rq.signature_end = MaxSize - 1
  /\ rq.tokens = <<[start |-> "F", stop |-> "S"], [start |-> "s", stop |-> "f"]>>
  /\ rq.ranges = <<<<0, MaxSize - 2>>, <<MaxSize - 1, MaxSize>>>>

Bin == <<"b", "i", "n">>

\* The encoding tokens among the format tokens of q.
EncodingsNamed(q) == {q.formats[i] : i \in {j \in 1..Len(q.formats) : q.formats[j] \in Encodings}}

\* C22: when sf names the bin encoding, the decoded signature is the bytes of
\* the residual signature text, unchanged, and not an empty byte sequence.
C22_BinPassedThrough ==
  (rq.done /\ rq.error = "" /\ EncodingsNamed(rq) = {Bin} /\ rq.v.signature # <<>>) =>
    /\ rq.v.signature_bytes = rq.v.signature
    /\ rq.v.signature_bytes # <<>>

\* validateSig invokes verify on this context once a key is imported: the
\* test of line 385 on digest2 and signature.
VerifyReached(q) == q.done /\ q.v.digest2 # <<>> /\ q.v.signature # <<>>

\* C23: whenever verify is invoked, signature_encoding is one of hex, HEX,
\* base64 and bin, and for hex, HEX and base64 the decoded signature is the
\* residual signature text decoded under that encoding; a format with no
\* encoding token does not reach verify with an unset encoding and an empty
\* decoded signature.
C23_EncodingSetAtVerify ==
  VerifyReached(rq) =>
    /\ rq.v.signature_encoding \in Encodings
    /\ rq.v.signature_encoding \in {<<"h", "e", "x">>, <<"H", "E", "X">>} =>
          rq.v.signature_bytes = hexToUint8Array(rq.v.signature).bytes
    /\ rq.v.signature_encoding = Base64 =>
          rq.v.signature_bytes = base64ToUint8Array(rq.v.signature).bytes
    /\ EncodingsNamed(rq) = {} =>
          ~(rq.v.signature_encoding = <<>> /\ rq.v.signature_bytes = <<>>)

\* C24: date0 is treated as date: for every signature text the formats
\* date0:<enc> and date:<enc> give the same signature_date, which is the 14
\* characters of the timestamp without a trailing separator, the same
\* residual signature and the same signed value.
C24_DateZeroIsDate ==
  (rq.done /\ rq.s # <<>>) =>
    /\ rq.zero.v.signature_date = rq.plain.v.signature_date
    /\ rq.zero.v.signature_date = Substring(rq.s, 0, 14)
    /\ rq.zero.v.signature = rq.plain.v.signature
    /\ rq.zero.v.digest2 = rq.plain.v.digest2
    /\ rq.zero.error = rq.plain.error

====
